---- MODULE Spec2Model ----
(***************************************************************************)
(* Setup-and-readiness orchestration of skywalking-infra-e2e:              *)
(*   - the cluster backend (internal/components/setup/kind.go): KindSetup, *)
(*     exposeKindService / exposePerKindService with one tunnel goroutine  *)
(*     per exposure, and the teardown KindCleanNotify;                     *)
(*   - the compose backend (internal/components/setup/compose.go):         *)
(*     ComposeSetup with its network resolution, port table lookup and the *)
(*     external / internal readiness loops;                                *)
(*   - the wait conditions (getWaitOptions, concurrentlyWait).             *)
(* The three parts share no state; each has its own specification.        *)
(***************************************************************************)
EXTENDS Integers, Sequences, FiniteSets, TLC

(***************************************************************************)
(* Bounds of the model.                                                    *)
(***************************************************************************)
MaxExports == 3

MaxImages == 2

MaxCleanCalls == 2

Min(a, b) == IF a < b THEN a ELSE b

VARIABLES
    \* ---- cluster backend: kind.go ----
    kcfg,        \* e2eConfig.Setup as KindSetup reads it
    kpc,         \* position of the goroutine running KindSetup
    kresult,     \* what KindSetup returned: "none" | "ok" | an error
    calls,       \* external collaborators invoked so far, in order
    imgI,        \* index of the next image to import
    ei,          \* index of the exposure exposeKindService is working on
    fctx,        \* forwardContext, the local *kindPortForwardContext
    bound,       \* portForwardContext != nil (the package-level pointer)
    stopChan,    \* values buffered in stopChannel (capacity 1)
    finChan,     \* values buffered in resourceFinishedChannel
    wstate,      \* per exposure: state of its tunnel goroutine
    wexit,       \* per exposure: how ForwardPorts returned
    ready,       \* per exposure: readyChannel has been closed
    errChan,     \* per exposure: values buffered in forwardErrorChannel
    published,   \* exposures whose environment keys were exported
    cpc,         \* position of the goroutine running KindCleanNotify
    cleanI,      \* loop variable i of KindCleanNotify
    cleanCalls,  \* number of KindCleanNotify calls started
    cleanSawCtx, \* the running/last KindCleanNotify call found a context
    \* ---- compose backend: compose.go ----
    ocfg,        \* e2eConfig.Setup and the parsed compose file
    docker,      \* what the docker daemon answers (networks, their gateways)
    networks,    \* names of the networks that exist
    opc,         \* position of the goroutine running ComposeSetup
    oresult,     \* what ComposeSetup returned: "none" | "ok" | an error
    netErr,      \* err of getDefaultNetwork at compose.go:62 ("" for nil)
    gwErr,       \* err of getGatewayIP at compose.go:64 ("" for nil)
    ip,          \* the gateway address ComposeSetup works with
    waitTimeout, \* bindWaitPort's waitTimeout, in seconds
    swp,         \* serviceWithPorts: service -> expected container ports
    stackUp,     \* docker-compose up -d was invoked
    todo,        \* services the range loop has not visited yet
    cur,         \* the service of the current iteration
    found,       \* service -> the container findContainer returned
    inx,         \* index into the current port list
    tj,          \* index of the matching entry of container.Ports
    env,         \* the process environment: key -> value
    clock,       \* seconds slept in the external check so far (saturating)
    probed,      \* (service, port) pairs whose probing has begun, in order
    execCount,   \* exec attempts for the current port (saturating)
    lastExec,    \* (exitCode, err) of the latest Exec call
    lastDial,    \* address and outcome of the latest dial for the current port
    stepsRun,    \* RunStepsAndWait was invoked
    \* ---- wait conditions: kind.go getWaitOptions, concurrentlyWait ----
    waits,       \* the declared wait conditions ([]config.Wait)
    setupTimeout, \* e2eConfig.Setup.Timeout of the run, in seconds
    wpc,         \* position of the goroutine that waits for them
    wresult,     \* what that goroutine returned: "none" | "ok" | an error
    gwo,         \* what getWaitOptions returned for waits[1..Len(gwo)]
    waiter,      \* per condition: state of its concurrentlyWait goroutine
    wgCount,     \* counter of waitSet.WaitGroup
    errBuf,      \* errors buffered in waitSet.ErrChan
    runErr,      \* per condition: err of options.RunWait() ("none" before)
    \* ---- one declared compose port: compose.go getExpectPort ----
    portDecl,       \* portList[inx], an element of the "ports" entry
    exportPort,     \* what getExpectPort returned for it
    \* ---- one exposure in detail: kind.go exposePerKindService ----
    xport,          \* port, the config.KindExposePort being exposed
    xobj,           \* the resource found in the cluster and its pod
    xpc,            \* position within exposePerKindService
    xresult,        \* what exposePerKindService returned
    convertedPorts, \* the *kindPort of each token of port.Port
    exposePorts,    \* the tunnel requests given to portforward.New
    exportedPorts,  \* forwarder.GetPorts(): the (Local, Remote) pairs
    resourceName,   \* the prefix of the published keys
    xenv,           \* the process environment: key -> value
    \* ---- one port resolution: compose.go MappedPort ----
    mstate,         \* what ContainerInspect reports of the container
    mport,          \* port, the nat.Port asked for
    mpc,            \* position within MappedPort
    mresults        \* what the calls made so far returned, in order

kvars == <<kcfg, kpc, kresult, calls, imgI, ei, fctx, bound, stopChan, finChan,
           wstate, wexit, ready, errChan, published, cpc, cleanI, cleanCalls,
           cleanSawCtx>>

ovars == <<ocfg, docker, networks, opc, oresult, netErr, gwErr, ip, waitTimeout, swp,
           stackUp, todo, cur, found, inx, tj, env, clock, probed, execCount,
           lastExec, lastDial, stepsRun>>

wvars == <<waits, setupTimeout, wpc, wresult, gwo, waiter, wgCount, errBuf, runErr>>

pvars == <<portDecl, exportPort>>

xvars == <<xport, xobj, xpc, xresult, convertedPorts, exposePorts, exportedPorts,
           resourceName, xenv>>

mvars == <<mstate, mport, mpc, mresults>>

vars == <<kvars, ovars, wvars, pvars, xvars, mvars>>

\* What the cluster backend, and what the compose backend, never touches.
notKind == <<ovars, wvars, pvars, xvars, mvars>>

notCompose == <<kvars, wvars, pvars, xvars, mvars>>

notWait == <<kvars, ovars, pvars, xvars, mvars>>

notPorts == <<kvars, ovars, wvars, xvars, mvars>>

notExposure == <<kvars, ovars, wvars, pvars, mvars>>

notMapped == <<kvars, ovars, wvars, pvars, xvars>>

\* getExpectPort was not called.
NoExpectPort == [called |-> FALSE, err |-> FALSE, val |-> 0]

PortPlanIdle ==
    /\ portDecl = [kind |-> "int", int |-> 0, str |-> ""]
    /\ exportPort = NoExpectPort

\* exposePerKindService has not built, forwarded or published anything.
ExposureFresh ==
    /\ xresult = "none"
    /\ convertedPorts = <<>>
    /\ exposePorts = <<>>
    /\ exportedPorts = <<>>
    /\ resourceName = ""
    /\ xenv = <<>>

ExposureIdle ==
    /\ xport = [Namespace |-> "", Resource |-> "", Port |-> ""]
    /\ xobj = [isService |-> FALSE, headless |-> FALSE, containerPorts |-> <<>>,
               servicePorts |-> <<>>]
    /\ xpc = "idle"
    /\ ExposureFresh

\* MappedPort was not called.
MappedIdle ==
    /\ mstate = [NetworkMode |-> "", Ports |-> <<>>]
    /\ mport = ""
    /\ mpc = "idle"
    /\ mresults = <<>>

MaxWaits == 2

Conditions == 1..MaxWaits

\* No wait condition is being waited for.
WaitFresh ==
    /\ wresult = "none"
    /\ gwo = <<>>
    /\ waiter = [i \in Conditions |-> "none"]
    /\ wgCount = 0
    /\ errBuf = 0
    /\ runErr = [i \in Conditions |-> "none"]

WaitIdle ==
    /\ waits = <<>>
    /\ setupTimeout = 0
    /\ wpc = "idle"
    /\ WaitFresh

Exposures == 1..MaxExports

\* No Exec call was made yet.
NoExec == [exitCode |-> -1, err |-> FALSE]

\* No dial was attempted for the current port yet.
NoDial == [host |-> "", port |-> 0, ok |-> FALSE]

\* The compose backend when the cluster backend was selected.
ComposeIdle ==
    /\ ocfg = [file |-> "", timeout |-> 0, stack |-> <<>>]
    /\ docker = [listFails |-> FALSE, createFails |-> FALSE, inspectFails |-> FALSE,
                 gateways |-> <<>>]
    /\ networks = {}
    /\ opc = "idle"
    /\ oresult = "none"
    /\ netErr = ""
    /\ gwErr = ""
    /\ ip = ""
    /\ waitTimeout = 0
    /\ swp = <<>>
    /\ stackUp = FALSE
    /\ todo = {}
    /\ cur = ""
    /\ found = <<>>
    /\ inx = 1
    /\ tj = 0
    /\ env = <<>>
    /\ clock = 0
    /\ probed = <<>>
    /\ execCount = 0
    /\ lastExec = NoExec
    /\ lastDial = NoDial
    /\ stepsRun = FALSE

(***************************************************************************)
(* kind.go: KindSetup                                                      *)
(***************************************************************************)
KindConfigs ==
    [file: {"", "kind.yaml"}, stepsNil: BOOLEAN, initEnv: BOOLEAN,
     images: 0..MaxImages, exports: 0..MaxExports]

NoContext == [created |-> FALSE, cancelled |-> FALSE, resourceCount |-> 0, finCap |-> 0]

\* The cluster backend before KindSetup runs (all of it but kcfg and kpc).
KindFresh ==
    /\ kresult = "none"
    /\ calls = <<>>
    /\ imgI = 1
    /\ ei = 1
    /\ fctx = NoContext
    /\ bound = FALSE
    /\ stopChan = 0
    /\ finChan = 0
    /\ wstate = [i \in Exposures |-> "none"]
    /\ wexit = [i \in Exposures |-> "none"]
    /\ ready = [i \in Exposures |-> FALSE]
    /\ errChan = [i \in Exposures |-> 0]
    /\ published = {}
    /\ cpc = "idle"
    /\ cleanI = 0
    /\ cleanCalls = 0
    /\ cleanSawCtx = FALSE

InitKind ==
    /\ kcfg \in KindConfigs
    /\ kpc = "k_enter"
    /\ KindFresh
    /\ ComposeIdle
    /\ WaitIdle
    /\ PortPlanIdle
    /\ ExposureIdle
    /\ MappedIdle

\* The cluster backend when the compose backend was selected.
KindIdle ==
    /\ kcfg = [file |-> "", stepsNil |-> TRUE, initEnv |-> FALSE, images |-> 0, exports |-> 0]
    /\ kpc = "idle"
    /\ KindFresh

forwardVars == <<fctx, bound, stopChan, finChan, wstate, wexit, ready, errChan, published>>

cleanVars == <<cpc, cleanI, cleanCalls, cleanSawCtx>>

KindReturn(res) ==
    /\ kpc' = "returned"
    /\ kresult' = res

\* A mutant of KindSetupEnter: the steps == nil early return is missing.
KindSetupEnterNoStepsCheck ==
    /\ kpc = "k_enter"
    /\ IF kcfg.file = ""
         THEN KindReturn("no kind config file was provided") /\ UNCHANGED calls
         ELSE /\ kpc' = "k_create"
              /\ kresult' = kresult
              /\ calls' = IF kcfg.initEnv THEN Append(calls, "exportEnv") ELSE calls
    /\ UNCHANGED <<kcfg, imgI, ei, forwardVars, cleanVars, notKind>>

\* kind.go:80-98: the two early returns, then the optional profile export.
KindSetupEnter ==
    /\ kpc = "k_enter"
    /\ IF kcfg.file = ""
         THEN KindReturn("no kind config file was provided") /\ UNCHANGED calls
         ELSE IF kcfg.stepsNil
           THEN KindReturn("ok") /\ UNCHANGED calls
           ELSE /\ kpc' = "k_create"
                /\ kresult' = kresult
                /\ calls' = IF kcfg.initEnv THEN Append(calls, "exportEnv") ELSE calls
    /\ UNCHANGED <<kcfg, imgI, ei, forwardVars, cleanVars, notKind>>

\* kind.go:100-102 and 154-173: kind create cluster, then KUBECONFIG.
CreateKindCluster ==
    /\ kpc = "k_create"
    /\ \E ok \in BOOLEAN :
         IF ok
           THEN /\ calls' = calls \o <<"createCluster", "setKubeconfig">>
                /\ kpc' = "k_import"
                /\ kresult' = kresult
           ELSE /\ calls' = Append(calls, "createCluster")
                /\ KindReturn("create cluster error")
    /\ UNCHANGED <<kcfg, imgI, ei, forwardVars, cleanVars, notKind>>

\* kind.go:105-115: one kind load docker-image per declared image.
ImportImage ==
    /\ kpc = "k_import"
    /\ imgI <= kcfg.images
    /\ calls' = Append(calls, "importImage" \o ToString(imgI))
    /\ \E ok \in BOOLEAN :
         IF ok
           THEN /\ imgI' = imgI + 1
                /\ UNCHANGED <<kpc, kresult>>
           ELSE /\ KindReturn("import image error")
                /\ UNCHANGED imgI
    /\ UNCHANGED <<kcfg, ei, forwardVars, cleanVars, notKind>>

\* kind.go:117-121: util.ConnectToK8sCluster(kubeConfigPath).
ConnectCluster ==
    /\ kpc = "k_import"
    /\ imgI > kcfg.images
    /\ calls' = Append(calls, "connect")
    /\ \E ok \in BOOLEAN :
         IF ok
           THEN kpc' = "k_steps" /\ kresult' = kresult
           ELSE KindReturn("connect error")
    /\ UNCHANGED <<kcfg, imgI, ei, forwardVars, cleanVars, notKind>>

\* A mutant of KindRunSteps: the error of RunStepsAndWait is recorded but
\* KindSetup goes on to the exposures.
KindRunStepsNoReturn ==
    /\ kpc = "k_steps"
    /\ calls' = Append(calls, "runSteps")
    /\ \E ok \in BOOLEAN :
         /\ kpc' = "e_prep"
         /\ kresult' = IF ok THEN kresult ELSE "steps error"
    /\ UNCHANGED <<kcfg, imgI, ei, forwardVars, cleanVars, notKind>>

\* kind.go:123-128: RunStepsAndWait, an opaque collaborator.
KindRunSteps ==
    /\ kpc = "k_steps"
    /\ calls' = Append(calls, "runSteps")
    /\ \E ok \in BOOLEAN :
         IF ok
           THEN kpc' = "e_prep" /\ kresult' = kresult
           ELSE KindReturn("steps error")
    /\ UNCHANGED <<kcfg, imgI, ei, forwardVars, cleanVars, notKind>>

(***************************************************************************)
(* kind.go: exposeKindService and exposePerKindService                     *)
(***************************************************************************)
\* kind.go:441-442: the failure path of the exposure loop. cancelFunc
\* cancels childCtx; no forwarder was given that context (portforward.New
\* at kind.go:345 gets forward.stopChannel only), and portForwardContext
\* is left unbound.
ExposeFail(res) ==
    /\ fctx' = [fctx EXCEPT !.cancelled = TRUE]
    /\ KindReturn(res)

\* kind.go:131 and 394-438: the call from KindSetup, the client set-up,
\* then the forward context.
ExposePrepare ==
    /\ kpc = "e_prep"
    /\ calls' = Append(calls, "expose")
    /\ \E ok \in BOOLEAN :
         IF ok
           THEN /\ fctx' = [created |-> TRUE, cancelled |-> FALSE,
                            resourceCount |-> kcfg.exports, finCap |-> kcfg.exports]
                /\ kpc' = "e_loop"
                /\ kresult' = kresult
           ELSE /\ KindReturn("kubeconfig error")
                /\ UNCHANGED fctx
    /\ UNCHANGED <<kcfg, imgI, ei, bound, stopChan, finChan, wstate, wexit, ready,
                   errChan, published, cleanVars, notKind>>

\* A mutant of ExposeResolve: a failed exposure is skipped and the loop goes
\* on to the next one instead of returning the error.
ExposeResolveSkipsFailure ==
    /\ kpc = "e_loop"
    /\ ei <= kcfg.exports
    /\ \E ok \in BOOLEAN :
         IF ok
           THEN /\ wstate' = [wstate EXCEPT ![ei] = "dialing"]
                /\ kpc' = "e_select"
                /\ UNCHANGED ei
           ELSE /\ ei' = ei + 1
                /\ UNCHANGED <<wstate, kpc>>
    /\ UNCHANGED <<kcfg, kresult, fctx, calls, imgI, bound, stopChan, finChan, wexit,
                   ready, errChan, published, cleanVars, notKind>>

\* kind.go:303-357: find the resource and its pod, build the ports and the
\* forwarder (any of which may fail), then start the tunnel goroutine.
ExposeResolve ==
    /\ kpc = "e_loop"
    /\ ei <= kcfg.exports
    /\ \E ok \in BOOLEAN :
         IF ok
           THEN /\ wstate' = [wstate EXCEPT ![ei] = "dialing"]
                /\ kpc' = "e_select"
                /\ UNCHANGED <<kresult, fctx>>
           ELSE /\ ExposeFail("resolve error")
                /\ UNCHANGED wstate
    /\ UNCHANGED <<kcfg, calls, imgI, ei, bound, stopChan, finChan, wexit, ready,
                   errChan, published, cleanVars, notKind>>

\* A mutant of ExposeReady: the select does not wait for readyChannel.
ExposeReadyUnawaited ==
    /\ kpc = "e_select"
    /\ \E ok \in BOOLEAN :
         IF ok
           THEN /\ published' = published \cup {ei}
                /\ ei' = ei + 1
                /\ kpc' = "e_loop"
                /\ UNCHANGED <<kresult, fctx>>
           ELSE /\ ExposeFail("could not set env")
                /\ UNCHANGED <<published, ei>>
    /\ UNCHANGED <<kcfg, calls, imgI, bound, stopChan, finChan, wstate, wexit, ready,
                   errChan, cleanVars, notKind>>

\* kind.go:360-386: the readyChannel case of the select; GetPorts and the
\* two kinds of exportKindEnv may fail.
ExposeReady ==
    /\ kpc = "e_select"
    /\ ready[ei]
    /\ \E ok \in BOOLEAN :
         IF ok
           THEN /\ published' = published \cup {ei}
                /\ ei' = ei + 1
                /\ kpc' = "e_loop"
                /\ UNCHANGED <<kresult, fctx>>
           ELSE /\ ExposeFail("could not set env")
                /\ UNCHANGED <<published, ei>>
    /\ UNCHANGED <<kcfg, calls, imgI, bound, stopChan, finChan, wstate, wexit, ready,
                   errChan, cleanVars, notKind>>

\* kind.go:388-389: the forwardErrorChannel case of the select.
ExposeError ==
    /\ kpc = "e_select"
    /\ errChan[ei] > 0
    /\ errChan' = [errChan EXCEPT ![ei] = @ - 1]
    /\ ExposeFail("create forward error")
    /\ UNCHANGED <<kcfg, calls, imgI, ei, bound, stopChan, finChan, wstate, wexit,
                   ready, published, cleanVars, notKind>>

\* kind.go:439, 446-448: every exposure is ready; bind the context.
ExposeBind ==
    /\ kpc = "e_loop"
    /\ ei > kcfg.exports
    /\ bound' = TRUE
    /\ KindReturn("ok")
    /\ UNCHANGED <<kcfg, calls, imgI, ei, fctx, stopChan, finChan, wstate, wexit,
                   ready, errChan, published, cleanVars, notKind>>

(***************************************************************************)
(* The tunnel goroutine of one exposure, kind.go:352-357, around           *)
(* client-go's PortForwarder.ForwardPorts (k8s.io/client-go v0.20.7):      *)
(* dial and listen, either of which ends it with an error; close(Ready);   *)
(* then select { <-stopChan ; <-streamConn.CloseChan() } and return nil.   *)
(***************************************************************************)
workerUnchanged == <<kcfg, kpc, kresult, calls, imgI, ei, fctx, bound, published, cleanVars, notKind>>

\* ForwardPorts fails before it is ready (dial or listen error).
WorkerDialFail(i) ==
    /\ wstate[i] = "dialing"
    /\ wstate' = [wstate EXCEPT ![i] = "failed"]
    /\ wexit' = [wexit EXCEPT ![i] = "error"]
    /\ UNCHANGED <<stopChan, finChan, ready, errChan, workerUnchanged>>

\* ForwardPorts listens and closes readyChannel.
WorkerReady(i) ==
    /\ wstate[i] = "dialing"
    /\ wstate' = [wstate EXCEPT ![i] = "forwarding"]
    /\ ready' = [ready EXCEPT ![i] = TRUE]
    /\ UNCHANGED <<stopChan, finChan, wexit, errChan, workerUnchanged>>

\* ForwardPorts receives one value from the shared stopChannel.
WorkerStop(i) ==
    /\ wstate[i] = "forwarding"
    /\ stopChan > 0
    /\ stopChan' = stopChan - 1
    /\ wstate' = [wstate EXCEPT ![i] = "returned"]
    /\ wexit' = [wexit EXCEPT ![i] = "stop"]
    /\ UNCHANGED <<finChan, ready, errChan, workerUnchanged>>

\* The connection to the pod is lost: ForwardPorts returns.
WorkerLostConnection(i) ==
    /\ wstate[i] = "forwarding"
    /\ wstate' = [wstate EXCEPT ![i] = "returned"]
    /\ wexit' = [wexit EXCEPT ![i] = "lost"]
    /\ UNCHANGED <<stopChan, finChan, ready, errChan, workerUnchanged>>

\* kind.go:353-355: forwardErrorChannel <- err (capacity 1).
WorkerSendError(i) ==
    /\ wstate[i] = "failed"
    /\ errChan[i] < 1
    /\ errChan' = [errChan EXCEPT ![i] = @ + 1]
    /\ wstate' = [wstate EXCEPT ![i] = "returned"]
    /\ UNCHANGED <<stopChan, finChan, wexit, ready, workerUnchanged>>

\* A mutant of WorkerAck: the goroutine does not end after its
\* acknowledgement and sends another one.
WorkerAckRepeats(i) ==
    /\ wstate[i] = "returned"
    /\ finChan < fctx.finCap
    /\ finChan' = finChan + 1
    /\ UNCHANGED <<wstate, stopChan, wexit, ready, errChan, workerUnchanged>>

\* kind.go:356: forward.resourceFinishedChannel <- struct{}{}.
WorkerAck(i) ==
    /\ wstate[i] = "returned"
    /\ finChan < fctx.finCap
    /\ finChan' = finChan + 1
    /\ wstate' = [wstate EXCEPT ![i] = "done"]
    /\ UNCHANGED <<stopChan, wexit, ready, errChan, workerUnchanged>>

(***************************************************************************)
(* kind.go: KindShouldWaitSignal and KindCleanNotify                       *)
(***************************************************************************)
\* kind.go:139-141
KindShouldWaitSignal == bound /\ fctx.resourceCount > 0

\* A mutant of DrainComplete: the drain loop stops one acknowledgement early.
DrainCompleteOneShort(i, n) == i >= n - 1

\* kind.go:148: the loop condition i < resourceCount, negated.
DrainComplete(i, n) == i >= n

cleanUnchanged == <<kcfg, kpc, kresult, calls, imgI, ei, fctx, bound, wstate, wexit,
                    ready, errChan, published, notKind>>

\* kind.go:144-145: teardown calls KindCleanNotify once setup has returned.
CleanCall ==
    /\ kpc = "returned"
    /\ cpc \in {"idle", "returned"}
    /\ cleanCalls < MaxCleanCalls
    /\ cleanCalls' = cleanCalls + 1
    /\ cleanSawCtx' = bound
    /\ cleanI' = 0
    /\ cpc' = IF bound THEN "send" ELSE "returned"
    /\ UNCHANGED <<stopChan, finChan, cleanUnchanged>>

\* kind.go:146: portForwardContext.stopChannel <- struct{}{} (capacity 1).
CleanSendStop ==
    /\ cpc = "send"
    /\ stopChan < 1
    /\ stopChan' = stopChan + 1
    /\ cpc' = "drain"
    /\ UNCHANGED <<finChan, cleanI, cleanCalls, cleanSawCtx, cleanUnchanged>>

\* kind.go:148-150: one iteration of the drain loop.
CleanReceiveAck ==
    /\ cpc = "drain"
    /\ ~DrainComplete(cleanI, fctx.resourceCount)
    /\ finChan > 0
    /\ finChan' = finChan - 1
    /\ cleanI' = cleanI + 1
    /\ UNCHANGED <<stopChan, cpc, cleanCalls, cleanSawCtx, cleanUnchanged>>

\* kind.go:148, 151-152: the loop is over, KindCleanNotify returns.
CleanReturn ==
    /\ cpc = "drain"
    /\ DrainComplete(cleanI, fctx.resourceCount)
    /\ cpc' = "returned"
    /\ UNCHANGED <<stopChan, finChan, cleanI, cleanCalls, cleanSawCtx, cleanUnchanged>>

KindMain ==
    \/ KindSetupEnter
    \/ CreateKindCluster
    \/ ImportImage
    \/ ConnectCluster
    \/ KindRunSteps
    \/ ExposePrepare
    \/ ExposeResolve
    \/ ExposeReady
    \/ ExposeError
    \/ ExposeBind

WorkerProgram(i) ==
    \/ WorkerStop(i)
    \/ WorkerSendError(i)
    \/ WorkerAck(i)

WorkerDial(i) ==
    \/ WorkerDialFail(i)
    \/ WorkerReady(i)

Cleaner ==
    \/ CleanSendStop
    \/ CleanReceiveAck
    \/ CleanReturn

NextKind ==
    \/ KindMain
    \/ \E i \in Exposures : WorkerDial(i)
    \/ \E i \in Exposures : WorkerProgram(i)
    \/ \E i \in Exposures : WorkerLostConnection(i)
    \/ CleanCall
    \/ Cleaner

SpecKind == InitKind /\ [][NextKind]_vars

\* Every goroutine that can take a step eventually takes one; whether a
\* connection is lost and whether teardown is called is up to the environment.
FairSpecKind ==
    /\ SpecKind
    /\ WF_vars(KindMain)
    /\ WF_vars(Cleaner)
    /\ \A i \in Exposures : WF_vars(WorkerDial(i)) /\ WF_vars(WorkerProgram(i))

(***************************************************************************)
(* compose.go: strings, port specifications, environment                   *)
(***************************************************************************)
MaxClock == 6

MaxExecs == 3

\* Stands for constant.DefaultWaitTimeout (compose.go:193), in the seconds
\* of the model's clock.
DefaultWaitTimeout == 4

\* compose.go:133: time.Sleep(time.Second * 2)
DialBackoff == 2

Char(s, i) == SubSeq(s, i, i)

\* strings.Contains(s, c) for a one-character c
Contains(s, c) == \E i \in 1..Len(s) : Char(s, i) = c

FirstIndex(s, c) == CHOOSE i \in 1..Len(s) : Char(s, i) = c /\ \A j \in 1..(i - 1) : Char(s, j) # c

\* strings.Split(s, sep) for a one-character sep
RECURSIVE Split(_, _)
Split(s, sep) ==
    IF ~Contains(s, sep)
      THEN <<s>>
      ELSE LET i == FirstIndex(s, sep)
           IN  <<SubSeq(s, 1, i - 1)>> \o Split(SubSeq(s, i + 1, Len(s)), sep)

DigitChars == <<"0", "1", "2", "3", "4", "5", "6", "7", "8", "9">>

IsDigit(c) == \E d \in 1..10 : DigitChars[d] = c

DigitValue(c) == (CHOOSE d \in 1..10 : DigitChars[d] = c) - 1

RECURSIVE DigitsValue(_)
DigitsValue(s) ==
    IF Len(s) = 0 THEN 0
    ELSE 10 * DigitsValue(SubSeq(s, 1, Len(s) - 1)) + DigitValue(Char(s, Len(s)))

\* strconv.Atoi on the unsigned decimal strings the model uses: the value,
\* or an error for an empty or non-numeric string.
Atoi(s) ==
    IF Len(s) > 0 /\ \A i \in 1..Len(s) : IsDigit(Char(s, i))
      THEN [err |-> FALSE, val |-> DigitsValue(s)]
      ELSE [err |-> TRUE, val |-> 0]

IntPort(n) == [kind |-> "int", int |-> n, str |-> ""]

StrPort(s) == [kind |-> "string", int |-> 0, str |-> s]

\* compose.go:225-237
getExpectPort(portConfig) ==
    CASE portConfig.kind = "int" -> [err |-> FALSE, val |-> portConfig.int]
      [] portConfig.kind = "string" ->
           LET portInfo == Split(portConfig.str, ":")
           IN  IF Len(portInfo) > 1 THEN Atoi(portInfo[2]) ELSE Atoi(portInfo[1])
      [] OTHER -> [err |-> TRUE, val |-> 0]

\* compose.go:253-262: the unanchored pattern .*_[0-9]+ matches a name
\* that holds an underscore followed by a digit.
getInstanceName(serviceName) ==
    IF \E i \in 1..(Len(serviceName) - 1) :
           Char(serviceName, i) = "_" /\ IsDigit(Char(serviceName, i + 1))
      THEN serviceName
      ELSE serviceName \o "_1"

\* compose.go:71: identifier := GetIdentity()
Identity == "e2e"

\* compose.go:87: the container name findContainer filters by
ContainerName(service) == Identity \o "_" \o getInstanceName(service)

\* compose.go:100: fmt.Sprintf("%s_host", service)
HostKey(service) == service \o "_host"

\* compose.go:160: fmt.Sprintf("%s_%d", service, containerPort.PrivatePort)
PortKey(service, port) == service \o "_" \o ToString(port)

\* os.Setenv (compose.go:181) fails for an empty key or one holding "=".
SetenvFails(key) == key = "" \/ Contains(key, "=")

Setenv(e, key, value) == [k \in DOMAIN e \cup {key} |-> IF k = key THEN value ELSE e[k]]

\* One element of container.Ports (types.Port).
PortEntry(private, public, type) == [PrivatePort |-> private, PublicPort |-> public, Type |-> type]

\* compose.go:116-119: the index of the first entry of containerPorts whose
\* PrivatePort is the expected port, 0 when the loop finds none.
MatchIndex(containerPorts, expectPort) ==
    IF \E j \in 1..Len(containerPorts) : containerPorts[j].PrivatePort = expectPort
      THEN CHOOSE j \in 1..Len(containerPorts) :
             /\ containerPorts[j].PrivatePort = expectPort
             /\ \A k \in 1..(j - 1) : containerPorts[k].PrivatePort # expectPort
      ELSE 0

(***************************************************************************)
(* compose.go: the inputs of a run                                         *)
(***************************************************************************)
Declared(ports) == [hasPorts |-> TRUE, ports |-> ports]

NoPortsKey == [hasPorts |-> FALSE, ports |-> <<>>]

\* compose.Services of the compose file: service -> its "ports" entry.
Stacks ==
    { ("es" :> Declared(<<IntPort(9200)>>)),
      ("es" :> Declared(<<StrPort("32001:9200"), IntPort(9300)>>)) @@ ("ui" :> NoPortsKey),
      ("es" :> Declared(<<IntPort(9200)>>)) @@ ("ui_2" :> Declared(<<StrPort("8080")>>)),
      ("es" :> Declared(<<>>)) @@ ("a=b" :> Declared(<<IntPort(9200)>>)),
      ("es" :> Declared(<<StrPort("http")>>)) }

Timeouts == {0, 2}

ComposeConfigs == [file: {"", "docker-compose.yml"}, timeout: Timeouts, stack: Stacks]

\* testcontainers.ReaperDefault
ReaperDefault == "reaper_default"

\* The docker daemon: whether NetworkList / NetworkCreate / NetworkInspect
\* fail, the networks that exist and the gateways of the IPAM config
\* entries of the network that gets inspected.
Daemon(listFails, createFails, inspectFails, gateways, nets) ==
    [docker |-> [listFails |-> listFails, createFails |-> createFails,
                 inspectFails |-> inspectFails, gateways |-> gateways],
     nets |-> nets]

DockerStates ==
    { Daemon(FALSE, FALSE, FALSE, <<"172.17.0.1">>, {"bridge", "other"}),
      Daemon(TRUE, FALSE, FALSE, <<"172.17.0.1">>, {"bridge"}),
      Daemon(FALSE, TRUE, FALSE, <<"172.18.0.1">>, {"other"}),
      Daemon(FALSE, FALSE, FALSE, <<"", "172.18.0.1">>, {}),
      Daemon(FALSE, FALSE, FALSE, <<"">>, {"bridge", ReaperDefault}),
      Daemon(FALSE, FALSE, TRUE, <<"172.18.0.1">>, {ReaperDefault}) }

\* What ContainerList reports as container.Ports of a found container.
PortTables ==
    { <<>>,
      <<PortEntry(9200, 32001, "tcp")>>,
      <<PortEntry(9300, 32002, "tcp"), PortEntry(9200, 32001, "tcp")>>,
      <<PortEntry(9200, 0, "tcp")>>,
      <<PortEntry(8080, 32003, "tcp")>> }

\* Outcomes of Exec (compose.go:366-398): an exit code, or an error.
ExecOutcomes ==
    [exitCode : {0, 1, 126}, err : {FALSE}] \cup {[exitCode |-> 0, err |-> TRUE]}

InitCompose ==
    /\ ocfg \in ComposeConfigs
    /\ \E d \in DockerStates : docker = d.docker /\ networks = d.nets
    /\ opc = "c_enter"
    /\ oresult = "none"
    /\ netErr = ""
    /\ gwErr = ""
    /\ ip = ""
    /\ waitTimeout = 0
    /\ swp = <<>>
    /\ stackUp = FALSE
    /\ todo = {}
    /\ cur = ""
    /\ found = <<>>
    /\ inx = 1
    /\ tj = 0
    /\ env = <<>>
    /\ clock = 0
    /\ probed = <<>>
    /\ execCount = 0
    /\ lastExec = NoExec
    /\ lastDial = NoDial
    /\ stepsRun = FALSE
    /\ KindIdle
    /\ WaitIdle
    /\ PortPlanIdle
    /\ ExposureIdle
    /\ MappedIdle

(***************************************************************************)
(* compose.go: network resolution                                          *)
(***************************************************************************)
\* compose.go:317-354: (name, err, networks afterwards).
getDefaultNetwork(d, nets) ==
    IF d.listFails
      THEN [name |-> "", err |-> "network list error", nets |-> nets]
    ELSE IF "bridge" \in nets
      THEN [name |-> "bridge", err |-> "", nets |-> nets]
    ELSE IF ReaperDefault \in nets
      THEN [name |-> ReaperDefault, err |-> "", nets |-> nets]
    ELSE IF d.createFails
      THEN [name |-> "", err |-> "network create error", nets |-> nets]
    ELSE [name |-> ReaperDefault, err |-> "", nets |-> nets \cup {ReaperDefault}]

\* compose.go:292-298: the first non-empty gateway of the IPAM config
\* entries, "" when there is none.
RECURSIVE FirstGateway(_)
FirstGateway(gateways) ==
    IF gateways = <<>> THEN ""
    ELSE IF Head(gateways) # "" THEN Head(gateways)
    ELSE FirstGateway(Tail(gateways))

\* compose.go:284-304: (ip, err, networks afterwards). The error of the
\* inner getDefaultNetwork is overwritten at line 287; NetworkInspect of a
\* network that does not exist (the name "" included) fails.
getGatewayIP(d, nets) ==
    LET n == getDefaultNetwork(d, nets)
    IN  IF d.inspectFails \/ n.name \notin n.nets
          THEN [ip |-> "", err |-> "network inspect error", nets |-> n.nets]
        ELSE IF FirstGateway(d.gateways) = ""
          THEN [ip |-> "", err |-> "Failed to get gateway IP from network settings",
                nets |-> n.nets]
        ELSE [ip |-> FirstGateway(d.gateways), err |-> "", nets |-> n.nets]

(***************************************************************************)
(* compose.go: ComposeSetup                                                *)
(***************************************************************************)
ComposeReturn(res) ==
    /\ opc' = "returned"
    /\ oresult' = res

\* compose.go:48-58: the definition file, then the docker client.
ComposeEnter ==
    /\ opc = "c_enter"
    /\ IF ocfg.file = ""
         THEN ComposeReturn("no compose config file was provided")
         ELSE \E ok \in BOOLEAN :
                IF ok THEN opc' = "c_network" /\ oresult' = oresult
                      ELSE ComposeReturn("docker client error")
    /\ UNCHANGED <<ocfg, docker, networks, netErr, gwErr, ip, waitTimeout, swp, stackUp,
                   todo, cur, found, inx, tj, env, clock, probed, execCount, lastExec, lastDial,
                   stepsRun, notCompose>>

\* compose.go:62-63: network, err := getDefaultNetwork(...); err is only
\* assigned, the next statement follows whatever it holds.
ComposeNetwork ==
    /\ opc = "c_network"
    /\ LET r == getDefaultNetwork(docker, networks)
       IN  /\ netErr' = r.err
           /\ networks' = r.nets
    /\ opc' = "c_gateway"
    /\ UNCHANGED <<ocfg, docker, oresult, gwErr, ip, waitTimeout, swp, stackUp, todo, cur,
                   found, inx, tj, env, clock, probed, execCount, lastExec, lastDial, stepsRun,
                   notCompose>>

\* compose.go:64-65: ip, err := getGatewayIP(...); err is only assigned.
ComposeGateway ==
    /\ opc = "c_gateway"
    /\ LET r == getGatewayIP(docker, networks)
       IN  /\ ip' = r.ip
           /\ gwErr' = r.err
           /\ networks' = r.nets
    /\ opc' = "c_plan"
    /\ UNCHANGED <<ocfg, docker, oresult, netErr, waitTimeout, swp, stackUp, todo, cur,
                   found, inx, tj, env, clock, probed, execCount, lastExec, lastDial, stepsRun,
                   notCompose>>

\* compose.go:190-196
WaitTimeoutOf(timeout) == IF timeout <= 0 THEN DefaultWaitTimeout ELSE timeout

\* compose.go:197-222: the services that declare ports, each with the
\* expected ports of its declarations.
PlannedServices(stack) == {sv \in DOMAIN stack : stack[sv].hasPorts}

PlanOf(stack) ==
    [sv \in PlannedServices(stack) |->
        [i \in 1..Len(stack[sv].ports) |-> getExpectPort(stack[sv].ports[i]).val]]

PlanFails(stack) ==
    \E sv \in PlannedServices(stack) :
        \E i \in 1..Len(stack[sv].ports) : getExpectPort(stack[sv].ports[i]).err

\* compose.go:75-78 and 189-223: bindWaitPort.
ComposePlan ==
    /\ opc = "c_plan"
    /\ waitTimeout' = WaitTimeoutOf(ocfg.timeout)
    /\ IF PlanFails(ocfg.stack)
         THEN ComposeReturn("bind wait ports error") /\ UNCHANGED swp
         ELSE /\ swp' = PlanOf(ocfg.stack)
              /\ opc' = "c_up"
              /\ oresult' = oresult
    /\ UNCHANGED <<ocfg, docker, networks, netErr, gwErr, ip, stackUp, todo, cur, found,
                   inx, tj, env, clock, probed, execCount, lastExec, lastDial, stepsRun, notCompose>>

\* compose.go:80-83: docker-compose up -d.
ComposeUp ==
    /\ opc = "c_up"
    /\ stackUp' = TRUE
    /\ \E ok \in BOOLEAN :
         IF ok
           THEN /\ opc' = "c_services"
                /\ todo' = DOMAIN swp
                /\ oresult' = oresult
           ELSE /\ ComposeReturn("compose up error")
                /\ UNCHANGED todo
    /\ UNCHANGED <<ocfg, docker, networks, netErr, gwErr, ip, waitTimeout, swp, cur, found,
                   inx, tj, env, clock, probed, execCount, lastExec, lastDial, stepsRun, notCompose>>

\* compose.go:86-102: one iteration of the range over serviceWithPorts (in
\* any order): findContainer, the empty port list, <service>_host.
ComposeNextService ==
    /\ opc = "c_services"
    /\ \E service \in todo :
         /\ todo' = todo \ {service}
         /\ cur' = service
         /\ \/ /\ ComposeReturn("could not found container")
               /\ UNCHANGED <<found, env, inx>>
            \/ \E table \in PortTables :
                 /\ found' = found @@ (service :> [name |-> ContainerName(service),
                                                   Ports |-> table])
                 /\ IF Len(swp[service]) = 0
                      THEN UNCHANGED <<opc, oresult, env, inx>>
                    ELSE IF SetenvFails(HostKey(service))
                      THEN ComposeReturn("could not set env") /\ UNCHANGED <<env, inx>>
                    ELSE /\ env' = Setenv(env, HostKey(service), ip)
                         /\ inx' = 1
                         /\ opc' = "c_ports"
                         /\ oresult' = oresult
    /\ UNCHANGED <<ocfg, docker, networks, netErr, gwErr, ip, waitTimeout, swp, stackUp,
                   tj, clock, probed, execCount, lastExec, lastDial, stepsRun, notCompose>>

\* compose.go:115-124: the search of containerPorts for portList[inx]; with
\* no matching entry the inner loop ends and the outer loop goes on.
ComposeMatchPort ==
    /\ opc = "c_ports"
    /\ inx <= Len(swp[cur])
    /\ LET j == MatchIndex(found[cur].Ports, swp[cur][inx])
       IN  IF j = 0
             THEN /\ inx' = inx + 1
                  /\ UNCHANGED <<opc, tj, probed, execCount, lastDial>>
             ELSE /\ tj' = j
                  /\ probed' = Append(probed, <<cur, swp[cur][inx]>>)
                  /\ execCount' = 0
                  /\ lastDial' = NoDial
                  /\ opc' = "c_dial"
                  /\ UNCHANGED inx
    /\ UNCHANGED <<ocfg, docker, networks, oresult, netErr, gwErr, ip, waitTimeout, swp,
                   stackUp, todo, cur, found, env, clock, lastExec, stepsRun, notCompose>>

\* compose.go:115, 167: the port list of the service is exhausted.
ComposePortsDone ==
    /\ opc = "c_ports"
    /\ inx > Len(swp[cur])
    /\ opc' = "c_services"
    /\ UNCHANGED <<ocfg, docker, networks, oresult, netErr, gwErr, ip, waitTimeout, swp,
                   stackUp, todo, cur, found, inx, tj, env, clock, probed, execCount,
                   lastExec, lastDial, stepsRun, notCompose>>

\* A mutant of AfterDial: the internal check follows the dial whether or
\* not it connected.
AfterDialNoGate(connected) == "c_exec"

\* compose.go:131-137: a failed dial sleeps and dials again, a successful
\* one leaves the loop for the internal check.
AfterDial(connected) == IF connected THEN "c_exec" ELSE "c_sleep"

\* compose.go:126-138: one attempt of the external check, a dial of
\* (ip, PublicPort) with context.Background(). Nothing listens on port 0.
ComposeDial ==
    /\ opc = "c_dial"
    /\ \E connected \in BOOLEAN :
         /\ connected => found[cur].Ports[tj].PublicPort # 0
         /\ lastDial' = [host |-> ip, port |-> found[cur].Ports[tj].PublicPort,
                         ok |-> connected]
         /\ opc' = AfterDial(connected)
    /\ UNCHANGED <<ocfg, docker, networks, oresult, netErr, gwErr, ip, waitTimeout, swp,
                   stackUp, todo, cur, found, inx, tj, env, clock, probed, execCount,
                   lastExec, stepsRun, notCompose>>

\* compose.go:131-133, 128: the failed attempt sleeps, then the loop dials
\* again; there is no other way out of the loop.
ComposeSleep ==
    /\ opc = "c_sleep"
    /\ clock' = Min(clock + DialBackoff, MaxClock)
    /\ opc' = "c_dial"
    /\ UNCHANGED <<ocfg, docker, networks, oresult, netErr, gwErr, ip, waitTimeout, swp,
                   stackUp, todo, cur, found, inx, tj, env, probed, execCount, lastExec, lastDial,
                   stepsRun, notCompose>>

\* A mutant of ExecVerdict: exit code 126 is retried like any other
\* non-zero code.
ExecVerdictRetry126(r) ==
    IF r.err THEN "error"
    ELSE IF r.exitCode = 0 THEN "ready"
    ELSE "retry"

\* A mutant of ExecVerdict: exit code 1 ends the internal check like 0.
ExecVerdictOneIsReady(r) ==
    IF r.err THEN "error"
    ELSE IF r.exitCode <= 1 THEN "ready"
    ELSE IF r.exitCode = 126 THEN "fatal"
    ELSE "retry"

\* A mutant of ExecVerdict: whatever the exit code, the port counts as ready.
ExecVerdictAnyExit(r) ==
    IF r.err THEN "error" ELSE "ready"

\* compose.go:144-154: what the internal check makes of one Exec.
ExecVerdict(r) ==
    IF r.err THEN "error"
    ELSE IF r.exitCode = 0 THEN "ready"
    ELSE IF r.exitCode = 126 THEN "fatal"
    ELSE "retry"

\* compose.go:141-155: one iteration of the internal check.
ComposeExec ==
    /\ opc = "c_exec"
    /\ \E r \in ExecOutcomes :
         /\ lastExec' = r
         /\ execCount' = Min(execCount + 1, MaxExecs)
         /\ CASE ExecVerdict(r) = "error" -> ComposeReturn("host port waiting failed")
              [] ExecVerdict(r) = "fatal" -> ComposeReturn("/bin/sh command not executable")
              [] ExecVerdict(r) = "ready" -> opc' = "c_publish" /\ oresult' = oresult
              [] OTHER -> UNCHANGED <<opc, oresult>>
    /\ UNCHANGED <<ocfg, docker, networks, netErr, gwErr, ip, waitTimeout, swp, stackUp,
                   todo, cur, found, inx, tj, env, clock, probed, lastDial, stepsRun,
                   notCompose>>

\* compose.go:157-165: <service>_<PrivatePort> = PublicPort, then break.
ComposePublish ==
    /\ opc = "c_publish"
    /\ LET entry == found[cur].Ports[tj]
           key == PortKey(cur, entry.PrivatePort)
       IN  IF SetenvFails(key)
             THEN ComposeReturn("could not set env") /\ UNCHANGED <<env, inx>>
             ELSE /\ env' = Setenv(env, key, ToString(entry.PublicPort))
                  /\ inx' = inx + 1
                  /\ opc' = "c_ports"
                  /\ oresult' = oresult
    /\ UNCHANGED <<ocfg, docker, networks, netErr, gwErr, ip, waitTimeout, swp, stackUp,
                   todo, cur, found, tj, clock, probed, execCount, lastExec, lastDial, stepsRun,
                   notCompose>>

\* compose.go:170-177: RunStepsAndWait, an opaque collaborator.
ComposeRunSteps ==
    /\ opc = "c_services"
    /\ todo = {}
    /\ stepsRun' = TRUE
    /\ \E ok \in BOOLEAN :
         IF ok THEN ComposeReturn("ok") ELSE ComposeReturn("steps error")
    /\ UNCHANGED <<ocfg, docker, networks, netErr, gwErr, ip, waitTimeout, swp, stackUp,
                   todo, cur, found, inx, tj, env, clock, probed, execCount, lastExec, lastDial,
                   notCompose>>

NextCompose ==
    \/ ComposeEnter
    \/ ComposeNetwork
    \/ ComposeGateway
    \/ ComposePlan
    \/ ComposeUp
    \/ ComposeNextService
    \/ ComposeMatchPort
    \/ ComposePortsDone
    \/ ComposeDial
    \/ ComposeSleep
    \/ ComposeExec
    \/ ComposePublish
    \/ ComposeRunSteps

SpecCompose == InitCompose /\ [][NextCompose]_vars

\* ComposeSetup runs in one goroutine that is never descheduled for good.
FairSpecCompose == SpecCompose /\ WF_vars(NextCompose)

(***************************************************************************)
(* compose.go: getExpectPort on one element of a "ports" entry            *)
(***************************************************************************)
MaxPortParts == 3

\* strings.Join(parts, sep)
RECURSIVE Join(_, _)
Join(parts, sep) ==
    IF Len(parts) = 1 THEN parts[1] ELSE parts[1] \o sep \o Join(Tail(parts), sep)

PortComponents == {"80", "8080", "9200", "127.0.0.1"}

\* The short syntax of a compose port: CONTAINER, HOST:CONTAINER,
\* IP:HOST:CONTAINER.
PortStrings ==
    {Join(parts, ":") : parts \in UNION {[1..n -> PortComponents] : n \in 1..MaxPortParts}}

\* What the YAML decoder hands over as portList[inx]: an int, a string, or
\* a value of another type.
PortDecls ==
    {IntPort(n) : n \in {80, 9200}} \cup {StrPort(str) : str \in PortStrings}
        \cup {[kind |-> "float", int |-> 0, str |-> ""]}

InitPorts ==
    /\ portDecl \in PortDecls
    /\ exportPort = NoExpectPort
    /\ KindIdle
    /\ ComposeIdle
    /\ WaitIdle
    /\ ExposureIdle
    /\ MappedIdle

\* compose.go:207: exportPort, err := getExpectPort(portList[inx])
BindPort ==
    /\ ~exportPort.called
    /\ LET r == getExpectPort(portDecl)
       IN  exportPort' = [called |-> TRUE, err |-> r.err, val |-> r.val]
    /\ UNCHANGED <<portDecl, notPorts>>

NextPorts == BindPort

SpecPorts == InitPorts /\ [][NextPorts]_vars

(***************************************************************************)
(* compose.go: MappedPort on one inspected container                       *)
(***************************************************************************)
MaxMappedCalls == 2

\* nat.SplitProtoPort (github.com/docker/go-connections/nat), which
\* nat.Port.Proto() and nat.Port.Port() at compose.go:414-417 go through:
\* the text before the first "/" is the port, the text after it the
\* protocol, "tcp" when there is none.
SplitProtoPort(rawPort) ==
    LET parts == IF Contains(rawPort, "/")
                   THEN LET i == FirstIndex(rawPort, "/")
                        IN  <<SubSeq(rawPort, 1, i - 1), SubSeq(rawPort, i + 1, Len(rawPort))>>
                   ELSE <<rawPort>>
    IN  IF Len(rawPort) = 0 \/ Len(parts[1]) = 0 THEN [proto |-> "", port |-> ""]
        ELSE IF Len(parts) = 1 THEN [proto |-> "tcp", port |-> rawPort]
        ELSE IF Len(parts[2]) = 0 THEN [proto |-> "tcp", port |-> parts[1]]
        ELSE [proto |-> parts[2], port |-> parts[1]]

\* nat.Port.Port()
PortOf(p) == SplitProtoPort(p).port

\* nat.Port.Proto()
ProtoOf(p) == SplitProtoPort(p).proto

\* compose.go:423: nat.NewPort(proto, port) for a single port: the number
\* is parsed and printed again; an empty port is 0.
NewPort(proto, port) ==
    IF port = "" THEN [port |-> "0/" \o proto, err |-> ""]
    ELSE IF Atoi(port).err THEN [port |-> "", err |-> "invalid port"]
    ELSE [port |-> ToString(Atoi(port).val) \o "/" \o proto, err |-> ""]

\* A mutant of PortMatches: the protocol of the entry is not compared.
PortMatchesAnyProto(k, p, port) ==
    /\ PortOf(k) = PortOf(port)
    /\ Len(p) # 0

\* compose.go:414-422: the entry (k, p) of the port map passes the three
\* tests of the loop body.
PortMatches(k, p, port) ==
    /\ PortOf(k) = PortOf(port)
    /\ ~(ProtoOf(port) # "" /\ ProtoOf(k) # ProtoOf(port))
    /\ Len(p) # 0

\* HostConfig.NetworkMode of the inspected container.
NetworkModes == {"host", "bridge"}

\* One nat.PortBinding.
Binding(hostPort) == [HostIP |-> "0.0.0.0", HostPort |-> hostPort]

BindingLists ==
    { <<>>,
      <<Binding("32768")>>,
      <<Binding("32769")>>,
      <<Binding("32769"), Binding("32768")>> }

\* The keys docker reports in NetworkSettings.Ports: "<port>/<protocol>".
PortMapKeys == {"9200/tcp", "9200/udp", "8080/tcp"}

\* NetworkSettings.Ports, a nat.PortMap.
PortMaps == UNION {[S -> BindingLists] : S \in SUBSET PortMapKeys}

\* The port argument; ComposeSetup passes "<expectPort>/tcp" (compose.go:121).
RequestedPorts == {"9200/tcp", "9200", "9200/udp", "9300/tcp"}

InitMapped ==
    /\ mstate \in [NetworkMode : NetworkModes, Ports : PortMaps]
    /\ mport \in RequestedPorts
    /\ mpc = "m_call"
    /\ mresults = <<>>
    /\ KindIdle
    /\ ComposeIdle
    /\ WaitIdle
    /\ PortPlanIdle
    /\ ExposureIdle

\* The three values MappedPort returns ("" for a nil error).
MappedResult(port, mode, err) == [port |-> port, mode |-> mode, err |-> err]

\* compose.go:400-407: the first inspection and the host network mode.
MappedPortInspect ==
    /\ mpc = "m_call"
    /\ Len(mresults) < MaxMappedCalls
    /\ \E ok \in BOOLEAN :
         IF ~ok
           THEN /\ mresults' = Append(mresults, MappedResult("", "", "inspect error"))
                /\ UNCHANGED mpc
         ELSE IF mstate.NetworkMode = "host"
           THEN /\ mresults' = Append(mresults, MappedResult(mport, mstate.NetworkMode, ""))
                /\ UNCHANGED mpc
         ELSE /\ mpc' = "m_ports"
              /\ UNCHANGED mresults
    /\ UNCHANGED <<mstate, mport, notMapped>>

\* compose.go:408-427: Ports inspects once more, then the range over the
\* port map, which visits the entries in any order and returns at the
\* first one that passes the tests.
MappedPortLookup ==
    /\ mpc = "m_ports"
    /\ mpc' = "m_call"
    /\ \E ok \in BOOLEAN :
         IF ~ok
           THEN mresults' = Append(mresults,
                                   MappedResult("", mstate.NetworkMode, "inspect error"))
           ELSE LET ports == mstate.Ports
                    hits == {k \in DOMAIN ports : PortMatches(k, ports[k], mport)}
                IN  IF hits = {}
                      THEN mresults' = Append(mresults,
                               MappedResult("", mstate.NetworkMode, "port not found"))
                      ELSE \E k \in hits :
                             LET n == NewPort(ProtoOf(k), ports[k][1].HostPort)
                             IN  mresults' = Append(mresults,
                                     MappedResult(n.port, mstate.NetworkMode, n.err))
    /\ UNCHANGED <<mstate, mport, notMapped>>

NextMapped ==
    \/ MappedPortInspect
    \/ MappedPortLookup

SpecMapped == InitMapped /\ [][NextMapped]_vars

(***************************************************************************)
(* kind.go: one exposure in detail (exposePerKindService, buildKindPort)  *)
(***************************************************************************)
MaxNameLen == 3

NameChars == {"a", "/", "-", "_"}

RECURSIVE Concat(_)
Concat(parts) == IF Len(parts) = 0 THEN "" ELSE Head(parts) \o Concat(Tail(parts))

\* port.Resource of the exposures
ResourceNames ==
    {"app/my-service", "a=b"} \cup
    {Concat(parts) : parts \in UNION {[1..n -> NameChars] : n \in 1..MaxNameLen}}

\* port.Port of the exposures: comma-separated tokens, each numeric, named
\* or local:remote.
PortLists == {"8080", "http", "80", "9090:80", "9090:http", "80,443", "http,8080"}

ContainerPort(name, number) == [Name |-> name, ContainerPort |-> number]

\* intstr.IntOrString
IntTarget(n) == [Type |-> "Int", IntVal |-> n, StrVal |-> ""]

StrTarget(name) == [Type |-> "String", IntVal |-> 0, StrVal |-> name]

ServicePort(name, port, target) == [Name |-> name, Port |-> port, TargetPort |-> target]

PodPorts == <<ContainerPort("http", 8080), ContainerPort("https", 8443)>>

\* obj and forwardablePod of kind.go:311-318: a pod, or a service (with its
\* ports, headless or not) and the pod behind it.
ClusterObjects ==
    { [isService |-> FALSE, headless |-> FALSE, containerPorts |-> PodPorts,
       servicePorts |-> <<>>],
      [isService |-> TRUE, headless |-> FALSE, containerPorts |-> PodPorts,
       servicePorts |-> <<ServicePort("http", 80, IntTarget(8080)),
                          ServicePort("tls", 443, StrTarget("https"))>>],
      [isService |-> TRUE, headless |-> TRUE, containerPorts |-> PodPorts,
       servicePorts |-> <<ServicePort("http", 80, IntTarget(8080)),
                          ServicePort("tls", 443, StrTarget("https"))>>],
      [isService |-> TRUE, headless |-> FALSE, containerPorts |-> PodPorts,
       servicePorts |-> <<ServicePort("web", 8080, IntTarget(0))>>] }

\* The index of the first element of seq whose field holds value, 0 when
\* there is none: the loops of the three lookups below.
FirstWith(seq, field, value) ==
    IF \E i \in 1..Len(seq) : seq[i][field] = value
      THEN CHOOSE i \in 1..Len(seq) :
             seq[i][field] = value /\ \A j \in 1..(i - 1) : seq[j][field] # value
      ELSE 0

\* k8s.io/kubectl/pkg/util: LookupContainerPortNumberByName
LookupContainerPortNumberByName(obj, name) ==
    LET i == FirstWith(obj.containerPorts, "Name", name)
    IN  IF i = 0 THEN [err |-> TRUE, val |-> -1]
        ELSE [err |-> FALSE, val |-> obj.containerPorts[i].ContainerPort]

\* k8s.io/kubectl/pkg/util: LookupServicePortNumberByName
LookupServicePortNumberByName(obj, name) ==
    LET i == FirstWith(obj.servicePorts, "Name", name)
    IN  IF i = 0 THEN [err |-> TRUE, val |-> -1]
        ELSE [err |-> FALSE, val |-> obj.servicePorts[i].Port]

\* k8s.io/kubectl/pkg/util: LookupContainerPortNumberByServicePort
LookupContainerPortNumberByServicePort(obj, port) ==
    LET i == FirstWith(obj.servicePorts, "Port", port)
    IN  IF i = 0 THEN [err |-> TRUE, val |-> port]
        ELSE IF obj.headless THEN [err |-> FALSE, val |-> port]
        ELSE LET target == obj.servicePorts[i].TargetPort
             IN  IF target.Type = "Int"
                   THEN [err |-> FALSE,
                         val |-> IF target.IntVal = 0 THEN port ELSE target.IntVal]
                   ELSE LookupContainerPortNumberByName(obj, target.StrVal)

NoKindPort == [err |-> TRUE, inputPort |-> "", realPort |-> 0, waitExpose |-> ""]

\* kind.go:74-78: a *kindPort
KindPort(inputPort, realPort, waitExpose) ==
    [err |-> FALSE, inputPort |-> inputPort, realPort |-> realPort,
     waitExpose |-> waitExpose]

\* kind.go:241-301. strconv.Atoi and strconv.ParseInt(_, 10, 32) agree on
\* the decimal strings of the model.
buildKindPort(port, obj) ==
    LET hasColon == Contains(port, ":")
        needExpose == IF hasColon THEN port ELSE ":" \o port
        remotePort == IF hasColon THEN Split(port, ":")[2] ELSE port
        number == Atoi(remotePort)
    IN  IF ~obj.isService
          THEN LET byName == LookupContainerPortNumberByName(obj, remotePort)
               IN  IF ~number.err THEN KindPort(remotePort, number.val, needExpose)
                   ELSE IF byName.err THEN NoKindPort
                   ELSE KindPort(remotePort, byName.val, needExpose)
          ELSE LET svcPort == LookupServicePortNumberByName(obj, remotePort)
               IN  IF number.err /\ svcPort.err THEN NoKindPort
                   ELSE LET portnum == IF number.err THEN svcPort.val ELSE number.val
                            containerPort == LookupContainerPortNumberByServicePort(obj, portnum)
                            realPort == containerPort.val
                            localPort == IF hasColon THEN Split(port, ":")[1] ELSE ""
                        IN  IF containerPort.err THEN NoKindPort
                            ELSE KindPort(remotePort, realPort,
                                          IF ToString(realPort) # remotePort
                                            THEN localPort \o ":" \o ToString(realPort)
                                            ELSE needExpose)

\* k8s.io/client-go/tools/portforward parsePorts, for one request string:
\* "remote", "local:remote" or ":remote" (local 0: any free port), both
\* parts decimal numbers of 16 bits, the remote one not 0.
parsePort(portString) ==
    LET parts == Split(portString, ":")
        localString == IF Len(parts) = 1 THEN parts[1]
                       ELSE IF parts[1] = "" THEN "0" ELSE parts[1]
        remoteString == IF Len(parts) = 1 THEN parts[1] ELSE parts[2]
        local == Atoi(localString)
        remote == Atoi(remoteString)
    IN  IF \/ Len(parts) > 2
           \/ local.err \/ local.val > 65535
           \/ remote.err \/ remote.val > 65535 \/ remote.val = 0
          THEN [err |-> TRUE, Local |-> 0, Remote |-> 0]
          ELSE [err |-> FALSE, Local |-> local.val, Remote |-> remote.val]

\* kind.go:368-370: the two strings.ReplaceAll calls.
RECURSIVE ReplaceAll(_, _, _)
ReplaceAll(str, old, new) ==
    IF Len(str) = 0 THEN ""
    ELSE (IF Char(str, 1) = old THEN new ELSE Char(str, 1))
             \o ReplaceAll(SubSeq(str, 2, Len(str)), old, new)

\* A mutant of sanitizeResourceName: "/" is replaced by "-", after the
\* dashes were replaced.
sanitizeSlashToDash(name) == ReplaceAll(ReplaceAll(name, "-", "_"), "/", "-")

sanitizeResourceName(name) == ReplaceAll(ReplaceAll(name, "/", "_"), "-", "_")

\* kind.go:377-386: the two nested loops, as one loop over the pairs
\* (exported port, converted port) in their order, from pair k on.
RECURSIVE exportPortKeys(_, _, _, _, _)
exportPortKeys(e, name, exported, converted, k) ==
    IF k >= Len(exported) * Len(converted) THEN e
    ELSE LET p == exported[(k \div Len(converted)) + 1]
             kp == converted[(k % Len(converted)) + 1]
         IN  exportPortKeys(IF p.Remote = kp.realPort
                              THEN Setenv(e, name \o "_" \o kp.inputPort, ToString(p.Local))
                              ELSE e,
                            name, exported, converted, k + 1)

InitExposure ==
    /\ xport \in [Namespace : {"default"}, Resource : ResourceNames, Port : PortLists]
    /\ xobj \in ClusterObjects
    /\ xpc = "x_find"
    /\ ExposureFresh
    /\ KindIdle
    /\ ComposeIdle
    /\ WaitIdle
    /\ PortPlanIdle
    /\ MappedIdle

PerServiceReturn(res) ==
    /\ xpc' = "returned"
    /\ xresult' = res

\* kind.go:305-326: the resource and its attachable pod, either of which
\* the cluster may fail to give.
PerServiceFind ==
    /\ xpc = "x_find"
    /\ \E ok \in BOOLEAN :
         IF ok THEN xpc' = "x_build" /\ xresult' = xresult
               ELSE PerServiceReturn("resource error")
    /\ UNCHANGED <<xport, xobj, convertedPorts, exposePorts, exportedPorts, resourceName,
                   xenv, notExposure>>

\* kind.go:328-337: one buildKindPort per token of port.Port.
PerServiceBuildPorts ==
    /\ xpc = "x_build"
    /\ LET ports == Split(xport.Port, ",")
           built == [i \in 1..Len(ports) |-> buildKindPort(ports[i], xobj)]
       IN  IF \E i \in 1..Len(ports) : built[i].err
             THEN /\ PerServiceReturn("build port error")
                  /\ UNCHANGED <<convertedPorts, exposePorts>>
             ELSE /\ convertedPorts' = built
                  /\ exposePorts' = [i \in 1..Len(ports) |-> built[i].waitExpose]
                  /\ xpc' = "x_new"
                  /\ xresult' = xresult
    /\ UNCHANGED <<xport, xobj, exportedPorts, resourceName, xenv, notExposure>>

\* kind.go:345-349: portforward.New parses the requests.
PerServiceNewForwarder ==
    /\ xpc = "x_new"
    /\ LET parsed == [i \in 1..Len(exposePorts) |-> parsePort(exposePorts[i])]
       IN  IF \E i \in 1..Len(parsed) : parsed[i].err
             THEN PerServiceReturn("forwarder error") /\ UNCHANGED exportedPorts
             ELSE /\ exportedPorts' = [i \in 1..Len(parsed) |->
                                          [Local |-> parsed[i].Local, Remote |-> parsed[i].Remote]]
                  /\ xpc' = "x_forward"
                  /\ xresult' = xresult
    /\ UNCHANGED <<xport, xobj, convertedPorts, exposePorts, resourceName, xenv, notExposure>>

\* The free local ports a listener on port 0 may get.
EphemeralBases == {40000, 50000}

\* kind.go:352-361, 388-389: ForwardPorts either fails, which the select
\* receives from forwardErrorChannel, or listens, giving every request with
\* local port 0 a free port, and closes readyChannel.
PerServiceForward ==
    /\ xpc = "x_forward"
    /\ \/ /\ PerServiceReturn("create forward error")
          /\ UNCHANGED exportedPorts
       \/ \E base \in EphemeralBases :
            /\ exportedPorts' = [i \in 1..Len(exportedPorts) |->
                                    IF exportedPorts[i].Local = 0
                                      THEN [exportedPorts[i] EXCEPT !.Local = base + i]
                                      ELSE exportedPorts[i]]
            /\ xpc' = "x_publish"
            /\ xresult' = xresult
    /\ UNCHANGED <<xport, xobj, convertedPorts, exposePorts, resourceName, xenv, notExposure>>

\* kind.go:362-386: GetPorts, the sanitized name, <name>_host and one key
\* per converted port that an exported port forwards to. A key that
\* os.Setenv rejects holds the rejected name, so the first one is the host key.
PerServicePublish ==
    /\ xpc = "x_publish"
    /\ resourceName' = sanitizeResourceName(xport.Resource)
    /\ IF SetenvFails(resourceName' \o "_host")
         THEN PerServiceReturn("could not set env") /\ UNCHANGED xenv
         ELSE /\ xenv' = exportPortKeys(Setenv(xenv, resourceName' \o "_host", "localhost"),
                                        resourceName', exportedPorts, convertedPorts, 0)
              /\ PerServiceReturn("ok")
    /\ UNCHANGED <<xport, xobj, convertedPorts, exposePorts, exportedPorts, notExposure>>

NextExposure ==
    \/ PerServiceFind
    \/ PerServiceBuildPorts
    \/ PerServiceNewForwarder
    \/ PerServiceForward
    \/ PerServicePublish

SpecExposure == InitExposure /\ [][NextExposure]_vars

(***************************************************************************)
(* kind.go: getWaitOptions and concurrentlyWait                            *)
(***************************************************************************)
\* Stands for constant.SingleDefaultWaitTimeout (kind.go:185), in seconds;
\* a fixed value that no field of the configuration enters.
SingleDefaultWaitTimeout == 1800

\* The timeouts a configuration declares, in seconds: of the run, and of
\* a single condition (0: the condition declares none).
SetupTimeouts == {300}

ConditionTimeouts == {0, 60}

WaitConds ==
    [Namespace : {"default"}, Resource : {"", "pod", "pod/nginx"},
     LabelSelector : {"", "app=web"}, For : {"condition=Ready"},
     Timeout : ConditionTimeouts]

NoOptions ==
    [built |-> FALSE, args |-> <<>>, LabelSelector |-> "", All |-> FALSE,
     Timeout |-> 0, ForCondition |-> ""]

ConflictError ==
    "when passing resource.group/resource.name in Resource, the labelSelector can not be set at the same time"

\* kind.go:180-207: getWaitOptions once the selector check has passed.
\* toOptionsOk stands for the outcome of waitFlags.ToOptions(args).
buildWaitOptions(wait, toOptionsOk) ==
    IF wait.Resource = ""
      THEN [err |-> "resource must be provided in wait block", clientBuilt |-> TRUE,
            options |-> NoOptions]
    ELSE IF ~toOptionsOk
      THEN [err |-> "wait options error", clientBuilt |-> TRUE, options |-> NoOptions]
    ELSE [err |-> "", clientBuilt |-> TRUE,
          options |-> [built |-> TRUE,
                       args |-> <<wait.Resource>>,
                       LabelSelector |-> wait.LabelSelector,
                       All |-> (wait.LabelSelector = "" /\ ~Contains(wait.Resource, "/")),
                       Timeout |-> SingleDefaultWaitTimeout,
                       ForCondition |-> wait.For]]

\* A mutant of getWaitOptions: the check of kind.go:176-178 is missing.
getWaitOptionsNoSelectorCheck(wait, toOptionsOk) == buildWaitOptions(wait, toOptionsOk)

\* kind.go:175-208
getWaitOptions(wait, toOptionsOk) ==
    IF Contains(wait.Resource, "/") /\ wait.LabelSelector # ""
      THEN [err |-> ConflictError, clientBuilt |-> FALSE, options |-> NoOptions]
      ELSE buildWaitOptions(wait, toOptionsOk)

InitWait ==
    /\ waits \in UNION {[1..n -> WaitConds] : n \in 1..MaxWaits}
    /\ setupTimeout \in SetupTimeouts
    /\ wpc = "w_loop"
    /\ WaitFresh
    /\ KindIdle
    /\ ComposeIdle
    /\ PortPlanIdle
    /\ ExposureIdle
    /\ MappedIdle

\* The caller of getWaitOptions and concurrentlyWait: for each condition in
\* turn it builds the options, returns the error if that fails, and
\* otherwise adds one to the wait group and starts the waiter.
WaitStart ==
    /\ wpc = "w_loop"
    /\ Len(gwo) < Len(waits)
    /\ LET i == Len(gwo) + 1
       IN  \E toOptionsOk \in BOOLEAN :
             LET r == getWaitOptions(waits[i], toOptionsOk)
             IN  /\ gwo' = Append(gwo, r)
                 /\ IF r.err # ""
                      THEN /\ wpc' = "returned"
                           /\ wresult' = r.err
                           /\ UNCHANGED <<waiter, wgCount>>
                      ELSE /\ waiter' = [waiter EXCEPT ![i] = "running"]
                           /\ wgCount' = wgCount + 1
                           /\ UNCHANGED <<wpc, wresult>>
    /\ UNCHANGED <<waits, setupTimeout, errBuf, runErr, notWait>>

\* The caller has started every waiter and blocks until all are done.
WaitAllStarted ==
    /\ wpc = "w_loop"
    /\ Len(gwo) = Len(waits)
    /\ wpc' = "w_wait"
    /\ UNCHANGED <<waits, setupTimeout, wresult, gwo, waiter, wgCount, errBuf, runErr, notWait>>

\* kind.go:231-232: options.RunWait() returns, with or without an error.
WaiterRunWait(i) ==
    /\ waiter[i] = "running"
    /\ \E ok \in BOOLEAN :
         /\ waiter' = [waiter EXCEPT ![i] = IF ok THEN "exiting" ELSE "failed"]
         /\ runErr' = [runErr EXCEPT ![i] = IF ok THEN "nil" ELSE "err"]
    /\ UNCHANGED <<waits, setupTimeout, wpc, wresult, gwo, wgCount, errBuf, notWait>>

\* kind.go:233-235: waitSet.ErrChan <- err; the channel holds one error per
\* declared condition.
WaiterSendError(i) ==
    /\ waiter[i] = "failed"
    /\ errBuf < Len(waits)
    /\ errBuf' = errBuf + 1
    /\ waiter' = [waiter EXCEPT ![i] = "exiting"]
    /\ UNCHANGED <<waits, setupTimeout, wpc, wresult, gwo, wgCount, runErr, notWait>>

\* A mutant of WaiterDone: Done is called at the end of the function, not
\* deferred, so the early return of the error path skips it.
WaiterDoneNotDeferred(i) ==
    /\ waiter[i] = "exiting"
    /\ wgCount' = IF runErr[i] = "err" THEN wgCount ELSE wgCount - 1
    /\ waiter' = [waiter EXCEPT ![i] = "done"]
    /\ UNCHANGED <<waits, setupTimeout, wpc, wresult, gwo, errBuf, runErr, notWait>>

\* kind.go:229: the deferred waitSet.WaitGroup.Done().
WaiterDone(i) ==
    /\ waiter[i] = "exiting"
    /\ wgCount' = wgCount - 1
    /\ waiter' = [waiter EXCEPT ![i] = "done"]
    /\ UNCHANGED <<waits, setupTimeout, wpc, wresult, gwo, errBuf, runErr, notWait>>

\* The wait group has reached zero: the caller looks for a recorded error.
WaitFinish ==
    /\ wpc = "w_wait"
    /\ wgCount = 0
    /\ wpc' = "returned"
    /\ wresult' = IF errBuf > 0 THEN "wait error" ELSE "ok"
    /\ UNCHANGED <<waits, setupTimeout, gwo, waiter, wgCount, errBuf, runErr, notWait>>

Waiter(i) ==
    \/ WaiterRunWait(i)
    \/ WaiterSendError(i)
    \/ WaiterDone(i)

NextWait ==
    \/ WaitStart
    \/ WaitAllStarted
    \/ \E i \in Conditions : Waiter(i)
    \/ WaitFinish

SpecWait == InitWait /\ [][NextWait]_vars

\* Every goroutine that can take a step eventually takes one: RunWait
\* returns (it has a timeout), a send on a channel with room and a Done
\* happen, and the caller goes on.
FairSpecWait ==
    /\ SpecWait
    /\ WF_vars(WaitStart \/ WaitAllStarted \/ WaitFinish)
    /\ \A i \in Conditions : WF_vars(Waiter(i))

(***************************************************************************)
(* Claims about the cluster backend                                        *)
(***************************************************************************)
Running(i) == wstate[i] \in {"dialing", "forwarding"}

\* C1: a KindCleanNotify call that found a bound context with
\* resourceCount = N has, when it returns, received exactly N
\* acknowledgements, and each of the N tunnel goroutines has sent its own,
\* however its ForwardPorts ended.
C1_DrainBarrier ==
    (cpc = "returned" /\ cleanSawCtx) =>
        /\ cleanI = fctx.resourceCount
        /\ \A i \in 1..fctx.resourceCount : wstate[i] = "done"

\* C1 witness: teardown of at least two tunnels has returned, one tunnel
\* having ended by itself (connection lost) and one by the stop signal.
C1_Witness ==
    /\ cpc = "returned"
    /\ cleanSawCtx
    /\ fctx.resourceCount >= 2
    /\ \E i, j \in 1..fctx.resourceCount : wexit[i] = "lost" /\ wexit[j] = "stop"

\* C2 (as claimed): once the first KindCleanNotify call is about to send
\* its stop signal while tunnels are forwarding, it eventually returns.
C2_StopReachesEveryWorker ==
    (cpc = "send" /\ cleanCalls = 1 /\ \E i \in Exposures : wstate[i] = "forwarding")
        ~> (cpc = "returned")

\* C3 (as claimed): once an exposure batch has failed (cancelFunc was
\* called) and a KindCleanNotify call has returned, no tunnel goroutine is
\* still dialing or forwarding.
C3_NoTunnelLeftRunning ==
    (fctx.cancelled /\ kpc = "returned" /\ cleanCalls >= 1 /\ cpc = "returned") =>
        \A i \in Exposures : ~Running(i)

\* C9 (as claimed): with steps == nil KindSetup returns success and has
\* invoked no collaborator, whatever the other fields are.
C9_NilStepsAlwaysSucceed ==
    (kcfg.stepsNil /\ kpc = "returned") => (kresult = "ok" /\ calls = <<>>)

\* C9 (amended): with steps == nil KindSetup never invokes cluster creation,
\* image import, cluster connection or port exposure; it returns success
\* when a definition file is given and the missing-file error otherwise.
C9_NilStepsNoCluster ==
    kcfg.stepsNil =>
        /\ calls = <<>>
        /\ ~fctx.created
        /\ \A i \in Exposures : wstate[i] = "none"
        /\ kpc = "returned" =>
             kresult = IF kcfg.file = "" THEN "no kind config file was provided" ELSE "ok"

\* C9 witness: a spec with a file, images and exposures but nil steps has
\* returned.
C9_Witness ==
    /\ kcfg.stepsNil
    /\ kcfg.file # ""
    /\ kcfg.images > 0
    /\ kcfg.exports > 0
    /\ kpc = "returned"
    /\ kresult = "ok"

\* The port tokens of the exposure, exactly as the user gave them.
Tokens == Split(xport.Port, ",")

\* C12 (as claimed): after a successful exposure <sanitizedName>_host is
\* published and, for every declared token t as the user gave it,
\* <sanitizedName>_<t> holds the local port of a tunnel that forwards to
\* the container port t resolved to.
C12_TokenKeys ==
    (xpc = "returned" /\ xresult = "ok") =>
        /\ (sanitizeResourceName(xport.Resource) \o "_host") \in DOMAIN xenv
        /\ \A i \in 1..Len(Tokens) :
             LET key == sanitizeResourceName(xport.Resource) \o "_" \o Tokens[i]
             IN  /\ key \in DOMAIN xenv
                 /\ \E j \in 1..Len(exportedPorts) :
                      /\ exportedPorts[j].Remote = convertedPorts[i].realPort
                      /\ xenv[key] = ToString(exportedPorts[j].Local)

\* C13: the name under which an exposure publishes its keys holds neither
\* "/" nor "-", sanitizing it again changes nothing, and the resource
\* "app/my-service" publishes under "app_my_service".
C13_SanitizeIdempotent ==
    (xpc = "returned" /\ xresult \in {"ok", "could not set env"}) =>
        /\ resourceName = sanitizeResourceName(xport.Resource)
        /\ sanitizeResourceName(resourceName) = resourceName
        /\ ~Contains(resourceName, "/")
        /\ ~Contains(resourceName, "-")
        /\ Len(resourceName) = Len(xport.Resource)
        /\ xport.Resource = "app/my-service" => resourceName = "app_my_service"

\* C13 witness: the exposure of "app/my-service" has published its host key
\* under the sanitized name.
C13_Witness ==
    /\ xpc = "returned"
    /\ xresult = "ok"
    /\ xport.Resource = "app/my-service"
    /\ "app_my_service_host" \in DOMAIN xenv

\* The actions of a complete KindSetup for the configuration c, in order.
ExpectedCalls(c) ==
    IF c.file = "" \/ c.stepsNil THEN <<>>
    ELSE (IF c.initEnv THEN <<"exportEnv">> ELSE <<>>)
         \o <<"createCluster", "setKubeconfig">>
         \o [i \in 1..c.images |-> "importImage" \o ToString(i)]
         \o <<"connect", "runSteps", "expose">>

IsPrefix(s, t) == Len(s) <= Len(t) /\ SubSeq(t, 1, Len(s)) = s

\* The action that failed when KindSetup returns the error res.
FailedCall(res) ==
    CASE res = "create cluster error" -> "createCluster"
      [] res \in {"import image error"} -> "importImage" \o ToString(imgI)
      [] res = "connect error" -> "connect"
      [] res = "steps error" -> "runSteps"
      [] OTHER -> "expose"

C18_NoExposuresNoSupervisor ==
    kcfg.exports = 0 =>
        /\ \A i \in 1..Len(calls) : calls[i] # "expose"
        /\ ~fctx.created
        /\ ~bound
        /\ ~KindShouldWaitSignal
        /\ stopChan = 0
        /\ cpc \notin {"send", "drain"}

\* The local part a token declares: what precedes its colon, if any.
DeclaredLocal(token) == IF Contains(token, ":") THEN Split(token, ":")[1] ELSE ""

\* C19 (as claimed): for a pod as for a service, the tunnel request built
\* for a token is "<declared local>:<realPort>", realPort being the numeric
\* container port the token resolved to.
C19_TunnelRequest ==
    \A i \in 1..Len(convertedPorts) :
        /\ convertedPorts[i].waitExpose =
             DeclaredLocal(Tokens[i]) \o ":" \o ToString(convertedPorts[i].realPort)
        /\ exposePorts[i] = convertedPorts[i].waitExpose

\* C22 (as claimed): once a KindCleanNotify call has returned the forward
\* context is gone: KindShouldWaitSignal is false, and a further
\* KindCleanNotify call returns at once, sending no stop signal and
\* waiting for no acknowledgement.
C22_ContextDestroyed ==
    /\ (cleanCalls >= 1 /\ cpc = "returned") => (~bound /\ ~KindShouldWaitSignal)
    /\ cleanCalls >= 2 => cpc = "returned"

\* The tunnel goroutines started so far (kind.go:352).
Spawned == {i \in Exposures : wstate[i] # "none"}

\* C23: whenever teardown can observe a forward context (portForwardContext
\* is bound), its resourceCount is the number of tunnel goroutines that were
\* started. A batch that failed part-way started fewer goroutines than were
\* declared, and its context is never bound.
C23_ResourceCountIsSpawned ==
    /\ bound => fctx.resourceCount = Cardinality(Spawned)
    /\ fctx.cancelled => ~bound

\* A context of two tunnels is bound.
C23_Witness ==
    /\ bound
    /\ fctx.resourceCount = 2
    /\ Cardinality(Spawned) = 2

\* C25: the exposures are processed in declared order, one at a time: the
\* goroutine of an exposure is started only when it is the current one, no
\* exposure has failed, and every earlier exposure has signalled ready and
\* had its environment keys published.
C25_ExposuresInOrder ==
    [][\A k \in Exposures :
         (wstate[k] = "none" /\ wstate'[k] # "none") =>
             /\ k = ei
             /\ ~fctx.cancelled
             /\ \A j \in 1..(k - 1) : ready[j] /\ j \in published]_vars

\* The third goroutine runs and the first two exposures are published.
C25_Witness ==
    /\ wstate[3] # "none"
    /\ {1, 2} \subseteq published

\* C26: neither send of a tunnel goroutine can block: a goroutine about to
\* send its error finds its error channel empty, a goroutine about to
\* acknowledge finds room in resourceFinishedChannel, whose content never
\* exceeds its capacity len(exports); an error was sent before the
\* acknowledgement (it is buffered, or KindSetup received it); and only the
\* goroutines that have ended have acknowledged.
C26_SendsNeverBlock ==
    /\ finChan <= fctx.finCap
    /\ finChan <= Cardinality({i \in Exposures : wstate[i] = "done"})
    /\ \A i \in Exposures :
         /\ errChan[i] <= 1
         /\ wstate[i] = "failed" => errChan[i] = 0
         /\ wstate[i] = "returned" => finChan < fctx.finCap
         /\ (wexit[i] = "error" /\ wstate[i] \in {"returned", "done"}) =>
                \/ errChan[i] = 1
                \/ ei = i /\ kresult = "create forward error"

\* Every declared tunnel has acknowledged and nobody has received: the
\* channel is full and no goroutine is left to send.
C26_Witness ==
    /\ kcfg.exports >= 2
    /\ finChan = fctx.finCap
    /\ \A i \in 1..kcfg.exports : wstate[i] = "done"

(***************************************************************************)
(* Claims about the compose backend                                        *)
(***************************************************************************)
\* The latest in-container check exited with code 126.
Fatal == lastExec.exitCode = 126 /\ ~lastExec.err

\* C4: the Exec that exits with code 126 is the last thing ComposeSetup
\* does: it returns the "not executable" error in that step, no key is
\* published by it or after it, no further probe begins, the steps are
\* not run and Exec is not invoked again.
C4_FatalShortCircuit ==
    /\ [](Fatal => (opc = "returned" /\ oresult = "/bin/sh command not executable"
                    /\ ~stepsRun))
    /\ [][Fatal' => /\ env' = env
                    /\ probed' = probed
                    /\ Fatal => execCount' = execCount]_vars

\* C4 witness: the first Exec of a port exited 126 and ComposeSetup has
\* returned although another declared port or service was still to come.
C4_Witness ==
    /\ Fatal
    /\ opc = "returned"
    /\ execCount = 1
    /\ (inx < Len(swp[cur]) \/ todo # {})

\* C5 (as claimed): when the configured timeout has elapsed in the external
\* check of a port that never accepts a connection, ComposeSetup
\* eventually returns an error.
C5_ProbingBoundedByTimeout ==
    (opc \in {"c_dial", "c_sleep"} /\ clock >= waitTimeout
        /\ found[cur].Ports[tj].PublicPort = 0)
        ~> (opc = "returned" /\ oresult # "ok")

\* getDefaultNetwork or getGatewayIP returned an error to ComposeSetup.
NetworkResolutionFailed == netErr # "" \/ gwErr # ""

\* C6 (as claimed): after a failed network resolution no later stage is
\* performed (no stack start, no probe, no publication, no steps) and
\* ComposeSetup does not return success.
C6_NetworkFailureAborts ==
    NetworkResolutionFailed =>
        /\ ~stackUp
        /\ probed = <<>>
        /\ DOMAIN env = {}
        /\ ~stepsRun
        /\ oresult # "ok"

\* C7 (as claimed): the steps are never run, and ComposeSetup never
\* succeeds, with a declared port that has no entry in the port table of
\* its container.
C7_UnresolvedPortAborts ==
    (stepsRun \/ oresult = "ok") =>
        \A sv \in DOMAIN swp : \A i \in 1..Len(swp[sv]) :
            MatchIndex(found[sv].Ports, swp[sv][i]) # 0

\* C8 (as claimed): after a successful ComposeSetup every service with a
\* declared port has <service>_host set to the gateway address of the
\* network and, for every declared port, <service>_<port> set to the
\* public port of that port's entry in the container's port table.
C8_PublishedEndpoints ==
    (opc = "returned" /\ oresult = "ok") =>
        \A sv \in DOMAIN swp :
            Len(swp[sv]) >= 1 =>
                /\ HostKey(sv) \in DOMAIN env
                /\ env[HostKey(sv)] # ""
                /\ env[HostKey(sv)] = FirstGateway(docker.gateways)
                /\ \A i \in 1..Len(swp[sv]) :
                     LET j == MatchIndex(found[sv].Ports, swp[sv][i])
                     IN  /\ j # 0
                         /\ PortKey(sv, swp[sv][i]) \in DOMAIN env
                         /\ env[PortKey(sv, swp[sv][i])] =
                              ToString(found[sv].Ports[j].PublicPort)

\* The last colon-separated component of a port string: its container side.
ContainerSide(str) == LET parts == Split(str, ":") IN parts[Len(parts)]

\* C11 (as claimed): getExpectPort returns the container-side port of a
\* declared port: the integer itself for an integer, and for a string the
\* numeric value of its last colon-separated component, whether it has
\* one, two or more components.
C11_ContainerSidePort ==
    exportPort.called =>
        CASE portDecl.kind = "int" ->
               ~exportPort.err /\ exportPort.val = portDecl.int
          [] portDecl.kind = "string" /\ ~Atoi(ContainerSide(portDecl.str)).err ->
               ~exportPort.err /\ exportPort.val = Atoi(ContainerSide(portDecl.str)).val
          [] OTHER -> TRUE

\* bindWaitPort has run (it sets a positive waitTimeout first of all).
BindingsPlanned == waitTimeout > 0

\* The external or the internal check of some port is going on.
ProbeInProgress == opc \in {"c_dial", "c_sleep", "c_exec"}

\* C14 (as claimed): the bindings are planned only once the stack was
\* started, and while a port is being probed no environment variable has
\* been published yet.
C14_LinearStages ==
    /\ BindingsPlanned => stackUp
    /\ ProbeInProgress => DOMAIN env = {}

\* The stages of ComposeSetup in the order of the code.
StageOf(pc) ==
    CASE pc \in {"idle", "c_enter"} -> 0
      [] pc \in {"c_network", "c_gateway"} -> 1
      [] pc = "c_plan" -> 2
      [] pc = "c_up" -> 3
      [] pc \in {"c_services", "c_ports", "c_dial", "c_sleep", "c_exec", "c_publish"} -> 4
      [] OTHER -> 5

\* C14 (amended): the stages occur in the order ResolveNetwork,
\* PlanBindings, StartStack, the loop over the services (resolve, publish
\* <service>_host, then per port probe and publish), RunSteps, without
\* going back; the stack is started only after the bindings were planned;
\* nothing is probed or published before the stack was started;
\* <service>_host is published when the service's container was found and
\* <service>_<port> only when the probes of that very port have passed
\* (the latest Exec exited 0); the steps run only when no service is left.
C14_StagesAsCoded ==
    /\ [][StageOf(opc') >= StageOf(opc)]_vars
    /\ [](stackUp => BindingsPlanned)
    /\ []((probed # <<>> \/ DOMAIN env # {} \/ stepsRun) => stackUp)
    /\ [][env' # env =>
            \/ /\ opc = "c_services"
               /\ cur' \in DOMAIN found'
               /\ env' = Setenv(env, HostKey(cur'), ip)
            \/ /\ opc = "c_publish"
               /\ lastExec = [exitCode |-> 0, err |-> FALSE]
               /\ probed[Len(probed)] = <<cur, swp[cur][inx]>>
               /\ HostKey(cur) \in DOMAIN env
               /\ env' = Setenv(env, PortKey(cur, swp[cur][inx]),
                                ToString(found[cur].Ports[tj].PublicPort))]_vars
    /\ [][(stepsRun' /\ ~stepsRun) => (opc = "c_services" /\ todo = {})]_vars

\* C14 witness: a run that probed and published two ports and then ran the
\* steps successfully.
C14_Witness ==
    /\ opc = "returned"
    /\ oresult = "ok"
    /\ stepsRun
    /\ Len(probed) >= 2
    /\ Cardinality(DOMAIN env) >= 3

\* The latest dial went to (ip, PublicPort of the current port) and connected.
ExternalGatePassed ==
    /\ lastDial.ok
    /\ lastDial.host = ip
    /\ lastDial.port = found[cur].Ports[tj].PublicPort

\* C15: the in-container check of a port is invoked only after a dial of
\* (ip, PublicPort) for that port has connected, and <service>_<port> is
\* published only after an in-container check of that port exited 0.
C15_ExternalBeforeInternal ==
    /\ [](opc \in {"c_exec", "c_publish"} => ExternalGatePassed)
    /\ [][(lastExec' # lastExec \/ execCount' > execCount) =>
            /\ opc = "c_exec"
            /\ ExternalGatePassed
            /\ probed[Len(probed)] = <<cur, swp[cur][inx]>>]_vars
    /\ [][(env' # env /\ opc # "c_services") =>
            /\ opc = "c_publish"
            /\ ExternalGatePassed
            /\ execCount >= 1
            /\ lastExec = [exitCode |-> 0, err |-> FALSE]
            /\ DOMAIN env' = DOMAIN env \cup {PortKey(cur, swp[cur][inx])}]_vars

\* C15 witness: a port key was published after a dial that failed at
\* first and an in-container check that was repeated.
C15_Witness ==
    /\ opc = "c_ports"
    /\ inx > 1
    /\ PortKey(cur, swp[cur][inx - 1]) \in DOMAIN env
    /\ clock > 0
    /\ execCount >= 2
    /\ lastDial.ok

\* The (service, port) pair whose probing began as the k-th has its key.
ProbePublished(k) == PortKey(probed[k][1], probed[k][2]) \in DOMAIN env

\* C16: the probes run one after the other: every probe that has begun,
\* but possibly the latest, is over and has published its key; a probe is
\* unfinished only while ComposeSetup is in its loops; and when the next
\* probe begins, the previous one has passed both gates (its dial
\* connected, its in-container check exited 0).
C16_SerialProbes ==
    /\ [](\A k \in 1..(Len(probed) - 1) : ProbePublished(k))
    /\ []((probed # <<>> /\ ~ProbePublished(Len(probed))) =>
            (ProbeInProgress \/ opc \in {"c_publish", "returned"}))
    /\ [][(probed' # probed /\ probed # <<>>) =>
            /\ probed' = Append(probed, <<cur', swp[cur'][inx']>>)
            /\ lastDial.ok
            /\ execCount >= 1
            /\ lastExec = [exitCode |-> 0, err |-> FALSE]
            /\ ProbePublished(Len(probed))]_vars

\* C16 witness: the probe of a second service's port is going on, having
\* been held up by a failed dial, after a first service's port was probed.
C16_Witness ==
    /\ Len(probed) >= 2
    /\ probed[1][1] # probed[Len(probed)][1]
    /\ opc = "c_dial"
    /\ ~lastDial.ok
    /\ lastDial.port # 0

\* The calls of MappedPort whose inspections succeeded.
Answered == {i \in 1..Len(mresults) : mresults[i].err # "inspect error"}

\* The key of the port map that the requested port names.
RequestedKey == PortOf(mport) \o "/" \o ProtoOf(mport)

\* C24: MappedPort is a function of the inspected state: every call made on
\* the same state returns the same values; in host network mode the
\* requested port, unchanged; otherwise the first host binding of the entry
\* with the requested port number and protocol, and the "port not found"
\* error when that entry is absent or has no binding.
C24_MappedPortDeterministic ==
    \A i \in Answered :
        LET r == mresults[i]
        IN  /\ \A j \in Answered : mresults[j] = r
            /\ r.mode = mstate.NetworkMode
            /\ IF mstate.NetworkMode = "host"
                 THEN r.port = mport /\ r.err = ""
               ELSE IF /\ RequestedKey \in DOMAIN mstate.Ports
                       /\ Len(mstate.Ports[RequestedKey]) > 0
                 THEN /\ r.port = mstate.Ports[RequestedKey][1].HostPort
                                      \o "/" \o ProtoOf(mport)
                      /\ r.err = ""
               ELSE r.port = "" /\ r.err = "port not found"

\* Two calls were answered for a port that has two bindings, next to an
\* entry of the same number and another protocol with another binding.
C24_Witness ==
    /\ {1, 2} \subseteq Answered
    /\ mstate.NetworkMode = "bridge"
    /\ mport = "9200"
    /\ {"9200/tcp", "9200/udp"} \subseteq DOMAIN mstate.Ports
    /\ mstate.Ports["9200/tcp"] = <<Binding("32769"), Binding("32768")>>
    /\ mstate.Ports["9200/udp"] = <<Binding("32768")>>

(***************************************************************************)
(* Claims about the wait conditions                                        *)
(***************************************************************************)
\* The condition names a resource as kind/name and sets a label selector.
SelectorConflict(wait) == Contains(wait.Resource, "/") /\ wait.LabelSelector # ""

Pending == {i \in Conditions : waiter[i] \in {"running", "failed", "exiting"}}

\* The waiters whose RunWait failed and whose error was sent.
Reported == {i \in Conditions : runErr[i] = "err" /\ waiter[i] \in {"exiting", "done"}}

\* C20: every started waiter calls Done exactly once when it exits, after
\* a successful RunWait as after a failed one; it sends one error if
\* RunWait failed and none otherwise; its send never finds ErrChan full;
\* the caller's wait ends once every RunWait has returned, and then the
\* error of every failed waiter is in ErrChan.
C20_WaitersAlwaysSignal ==
    /\ [](wgCount = Cardinality(Pending))
    /\ [][\A i \in Conditions : waiter[i] = "done" => waiter'[i] = "done"]_vars
    /\ [](errBuf = Cardinality(Reported))
    /\ [](\A i \in Conditions : waiter[i] = "failed" => errBuf < Len(waits))
    /\ []((wpc = "returned" /\ wresult \in {"ok", "wait error"}) =>
            /\ \A i \in 1..Len(waits) : waiter[i] = "done"
            /\ errBuf = Cardinality({i \in Conditions : runErr[i] = "err"})
            /\ wresult = "wait error" <=> \E i \in Conditions : runErr[i] = "err")
    /\ (wpc = "w_wait") ~> (wpc = "returned")

\* C20 witness: both of two waiters failed, both errors are buffered and
\* the caller has returned.
C20_Witness ==
    /\ Len(waits) = 2
    /\ wpc = "returned"
    /\ wresult = "wait error"
    /\ errBuf = 2
    /\ wgCount = 0

\* C21 (as claimed): the options built for a condition carry the
\* condition's own timeout when it declares one, and the timeout of the
\* run otherwise.
C21_ConditionTimeout ==
    \A i \in 1..Len(gwo) :
        gwo[i].options.built =>
            gwo[i].options.Timeout =
                IF waits[i].Timeout > 0 THEN waits[i].Timeout ELSE setupTimeout

(***************************************************************************)
(* The whole program: the driver selects one backend per run.             *)
(***************************************************************************)
Init == InitKind \/ InitCompose \/ InitWait \/ InitPorts \/ InitExposure \/ InitMapped

Next == NextKind \/ NextCompose \/ NextWait \/ NextPorts \/ NextExposure \/ NextMapped

Spec == Init /\ [][Next]_vars

====
